---- MODULE Spec2Model ----
(***************************************************************************)
(* Model of the HC-06 health-monitor application (src/App.tsx).            *)
(*                                                                         *)
(* The Bluetooth App is a React function component.  Its handlers are     *)
(* closures created by a render: a handler reads the `status`, `device`   *)
(* and `data` of the render that created it (rStatus, rDevice, rData      *)
(* below), while setStatus/setDevice/setData write the component state    *)
(* (status, device, data), which the handlers see only after the next     *)
(* render.  The refs (deviceRef, subscriptionRef, timeoutRef) are shared  *)
(* mutable cells read and written in place.                               *)
(*                                                                         *)
(* Every action is one run-to-completion segment of the event loop: a     *)
(* handler up to its first await, the continuation of an await, a timer   *)
(* callback, a data callback, or a render.  toLocaleTimeString() prefixes *)
(* of log entries are not modelled (no clock in the model).               *)
(***************************************************************************)
EXTENDS Integers, Sequences, FiniteSets, Bags, TLC

\* ------------------------------------------------------------------ bounds
MaxConnects == 2      \* connect invocations that pass the guard, per run
MaxInvoked == 3       \* connect invocations (accepted or not), per run
MaxDisconnects == 2   \* adapter disconnect calls in flight at once
MaxRefresh == 1       \* initBluetooth runs (mount + Refresh presses)
MaxScans == 1         \* presses of the Scan button, per run

\* --------------------------------------------------------------- constants
LogKeep == 10         \* prev.slice(0, 10) in addLog

NoDevice == [name |-> "null", address |-> "null"]   \* the JavaScript null
NoRef == 0

HC06 == [name |-> "HC-06", address |-> "98:D3"]
Mouse == [name |-> "Mouse", address |-> "11:22"]

\* a device that reports no name, one whose name differs in case only, and
\* a second module whose name contains "HC-06"
Nameless == [address |-> "AA:00"]
Lower06 == [name |-> "hc-06", address |-> "BB:01"]
Clone == [name |-> "HC-06-lab", address |-> "CC:02"]

\* what getBondedDevices() and startDiscovery() may return
BondedLists ==
  { <<>>, <<Mouse, HC06>>, <<Nameless, Lower06>>,
    <<Nameless, Lower06, Clone, HC06>> }

AdapterErrors == { "socket closed", "java.io.IOException" }

VARIABLES
  status,           \* useState('disconnected')
  device,           \* useState(null)
  data,             \* useState({accelerometer: ..., heartRate: 72, ...})
  logs,             \* useState(['App started'])
  rStatus,          \* `status` as captured by the handlers of the last render
  rDevice,          \* `device` as captured by the handlers of the last render
  rData,            \* `data` as captured by the handlers of the last render
  deviceRef,        \* useRef(null)
  subscriptionRef,  \* useRef(null): id of the subscription held, or NoRef
  timeoutRef,       \* useRef(null): id of the timer held, or NoRef
  calls,            \* connect invocations that passed the guard, in order
  subs,             \* subscriptions registered at the adapter (by call id)
  disc,             \* bag of adapter disconnect() calls in flight
  link,             \* addresses the adapter holds an open channel to
  invoked,          \* number of connect invocations so far
  refreshed,        \* number of initBluetooth runs so far
  expected,         \* per field, the value of the last line that supplied it
  last,             \* the kind of the last line the data callback was given
  mounted,          \* the component is mounted
  sim,              \* the state of the simulated-connection App (a record)
  discovery         \* counts of Scan presses, adapter list queries and alerts
                    \* of initBluetooth and scan

appVars == << status, device, data, logs, rStatus, rDevice, rData, deviceRef,
              subscriptionRef, timeoutRef, calls, subs, disc, link, invoked,
              refreshed, expected, last, mounted, discovery >>

vars == << status, device, data, logs, rStatus, rDevice, rData, deviceRef,
           subscriptionRef, timeoutRef, calls, subs, disc, link, invoked,
           refreshed, expected, last, mounted, sim, discovery >>

\* The mutable cells a handler segment reads and writes, as one record.
Cells ==
  [ status |-> status, device |-> device, data |-> data, logs |-> logs,
    deviceRef |-> deviceRef, subscriptionRef |-> subscriptionRef,
    timeoutRef |-> timeoutRef, calls |-> calls, subs |-> subs,
    disc |-> disc, link |-> link, mounted |-> mounted ]

Commit(s) ==
  /\ status' = s.status
  /\ device' = s.device
  /\ data' = s.data
  /\ logs' = s.logs
  /\ deviceRef' = s.deviceRef
  /\ subscriptionRef' = s.subscriptionRef
  /\ timeoutRef' = s.timeoutRef
  /\ calls' = s.calls
  /\ subs' = s.subs
  /\ disc' = s.disc
  /\ link' = s.link

\* ------------------------------------------------------------ small helpers
Take(seq, n) == SubSeq(seq, 1, IF Len(seq) < n THEN Len(seq) ELSE n)

\* addLog: [entry, ...prev.slice(0, 10)]; an entry is <<text, argument>>.
\* A state update of a component that is no longer mounted is dropped.
addLog(s, msg) ==
  IF s.mounted THEN [s EXCEPT !.logs = <<msg>> \o Take(s.logs, LogKeep)] ELSE s

setStatus(s, v) == IF s.mounted THEN [s EXCEPT !.status = v] ELSE s

\* clearTimeout(id): cancels the timer if it is still pending
clearTimeout(s, id) ==
  IF id # NoRef /\ s.calls[id].timer = "pending"
    THEN [s EXCEPT !.calls[id].timer = "cancelled"]
    ELSE s

\* `if (timeoutRef.current) clearTimeout(timeoutRef.current)`
clearHeldTimeout(s) == clearTimeout(s, s.timeoutRef)

\* disconnect(), lines 104-107: drop the held subscription
removeSubscription(s) ==
  IF s.subscriptionRef # NoRef
    THEN [s EXCEPT !.subs = @ \ {s.subscriptionRef}, !.subscriptionRef = NoRef]
    ELSE s

\* disconnect(), lines 117-118
disconnectTail(s) == setStatus(clearHeldTimeout(s), "disconnected")

\* disconnect() from its call to its first await (or to its end when no
\* device is held).  `by` names the caller: "user", "error" or "timeout" ("unmount" is the
\* call of the cleanup, line 227).
disconnect(s, by) ==
  LET s1 == removeSubscription(s) IN
  IF s1.deviceRef # NoDevice
    THEN [s1 EXCEPT !.disc = @ (+) SetToBag({[dev |-> s1.deviceRef, by |-> by]})]
    ELSE disconnectTail(s1)

\* handleError(err), lines 164-170
handleError(s, msg) ==
  LET s1 == clearHeldTimeout(s)
      s2 == setStatus(s1, "failed")
      s3 == addLog(s2, <<"Failed: ", msg>>)
  IN disconnect(s3, "error")

\* connect(), lines 93-97: the continuation after the adapter confirmed
connectSucceeded(s, i) ==
  LET s1 == clearHeldTimeout(s)
      s2 == setStatus(s1, "connected")
      s3 == addLog(s2, <<"Connected", "">>)
  IN [s3 EXCEPT !.subscriptionRef = i, !.subs = @ \cup {i},
                !.calls[i].stage = "ok"]

\* a deadline callback that does not look at the status at all
timeoutGuardBlind(captured) == TRUE

\* the guard of the deadline callback, line 76: `status` is the value the
\* connect invocation captured from its render
timeoutGuard(captured) == captured = "connecting"

\* the guard of connect(), line 70
connectGuard(st, dev) == ~(st # "disconnected" \/ dev = NoDevice)

\* a comparison of the whole name
sameString(str, sub) == str = sub

\* String.prototype.includes: `sub` occurs in `str`, case-sensitive
includes(str, sub) ==
  \E i \in 1..(Len(str) - Len(sub) + 1) : SubSeq(str, i, i + Len(sub) - 1) = sub

\* d.name?.includes('HC-06'): a device without a name yields undefined
nameIncludes(d) == "name" \in DOMAIN d /\ includes(d.name, "HC-06")

\* devices.find(d => d.name?.includes('HC-06')), lines 56 and 207
RECURSIVE find(_)
find(devices) ==
  IF devices = <<>> THEN NoDevice
  ELSE IF nameIncludes(Head(devices)) THEN Head(devices)
  ELSE find(Tail(devices))

\* ------------------------------------------------------------ sensor data
\* Numbers are held in hundredths (36.8 is 3680): the lines of the inputs
\* carry at most two decimals, no exponent and no tie at the rounded digit.
NaN == -1000000000

InitialData ==
  [ accelerometer |-> [x |-> 0, y |-> 0, z |-> 980],
    heartRate |-> 7200, temperature |-> 3680, ecg |-> 95000, spo2 |-> 9800 ]

Digits == "0123456789"
Lower == "abcdefghijklmnopqrstuvwxyz"
Upper == "ABCDEFGHIJKLMNOPQRSTUVWXYZ"

At(str, i) == SubSeq(str, i, i)
IndexIn(c, str) ==
  IF \E i \in 1..Len(str) : At(str, i) = c
    THEN CHOOSE i \in 1..Len(str) : At(str, i) = c
    ELSE 0

\* a trim that leaves blanks in place
IsSpaceNoBlank(c) == c \in {"\t", "\r", "\n"}

IsSpace(c) == c \in {" ", "\t", "\r", "\n"}

RECURSIVE trimStart(_)
trimStart(str) ==
  IF str # "" /\ IsSpace(Head(str)) THEN trimStart(Tail(str)) ELSE str

RECURSIVE trimEnd(_)
trimEnd(str) ==
  IF str # "" /\ IsSpace(At(str, Len(str)))
    THEN trimEnd(SubSeq(str, 1, Len(str) - 1))
    ELSE str

\* String.prototype.trim
trim(str) == trimEnd(trimStart(str))

\* String.prototype.toUpperCase
RECURSIVE toUpperCase(_)
toUpperCase(str) ==
  IF str = "" THEN ""
  ELSE LET c == Head(str)
           i == IndexIn(c, Lower)
       IN (IF i = 0 THEN c ELSE At(Upper, i)) \o toUpperCase(Tail(str))

\* String.prototype.split(sep) for a one-character separator
RECURSIVE splitFrom(_, _, _)
splitFrom(str, sep, cur) ==
  IF str = "" THEN <<cur>>
  ELSE IF Head(str) = sep THEN <<cur>> \o splitFrom(Tail(str), sep, "")
  ELSE splitFrom(Tail(str), sep, cur \o Head(str))

split(str, sep) == splitFrom(str, sep, "")

RECURSIVE digitsPrefix(_)
digitsPrefix(str) ==
  IF str # "" /\ IndexIn(Head(str), Digits) # 0
    THEN Head(str) \o digitsPrefix(Tail(str))
    ELSE ""

RECURSIVE numVal(_)
numVal(ds) ==
  IF ds = "" THEN 0
  ELSE numVal(SubSeq(ds, 1, Len(ds) - 1)) * 10 + (IndexIn(At(ds, Len(ds)), Digits) - 1)

\* parseFloat: leading white space, a sign, digits, a fraction; the longest
\* numeric prefix counts and the rest of the string is ignored
parseFloat(str) ==
  LET t == trimStart(str)
      signed == t # "" /\ Head(t) \in {"-", "+"}
      u == IF signed THEN Tail(t) ELSE t
      ip == digitsPrefix(u)
      rest == SubSeq(u, Len(ip) + 1, Len(u))
      fp == IF rest # "" /\ Head(rest) = "." THEN digitsPrefix(Tail(rest)) ELSE ""
      frac == numVal(SubSeq(fp \o "00", 1, 2))
      mag == numVal(ip) * 100 + frac
  IN IF ip = "" /\ fp = "" THEN NaN
     ELSE IF signed /\ Head(t) = "-" THEN 0 - mag ELSE mag

\* Math.round: to the nearest integer, halves up
MathRound(v) == ((v + 50) \div 100) * 100

\* parseFloat(v.toFixed(1)): to the nearest tenth
toFixed1(v) == IF v >= 0 THEN ((v + 5) \div 10) * 10 ELSE 0 - (((0 - v) + 5) \div 10) * 10

put(f, k, v) == [n \in DOMAIN f \cup {k} |-> IF n = k THEN v ELSE f[n]]

\* parseData, lines 142-146: the key and the number of a part, given the
\* two strings of the destructuring
checkedPair(key, val) ==
  IF key = "" \/ val = "" THEN [ok |-> FALSE, k |-> "", v |-> NaN]
  ELSE [ok |-> parseFloat(val) # NaN, k |-> toUpperCase(trim(key)),
        v |-> parseFloat(val)]

\* `const [key, val] = part.split(':')`, line 141.  A missing second
\* element (undefined) and an empty one are both falsy at line 142.
destructure(kv) == checkedPair(kv[1], IF Len(kv) >= 2 THEN kv[2] ELSE "")

pairOf(part) == destructure(split(part, ":"))

\* ------------------------------------------------------------------ inputs
MaxParts == 2         \* parts per received line

Parts == { "hr:80.6", "AX:1", " ay : 2", "AZ:x", "FOO:3" }

\* lines of one pair that are not combined into longer ones
Singles == { "AX:0", "TEMP:36.72", "HR:" }

RECURSIVE LinesOf(_)
LinesOf(n) ==
  IF n = 1 THEN Parts
  ELSE LET shorter == LinesOf(n - 1)
       IN shorter \cup { l \o "," \o p : l \in shorter, p \in Parts }

\* White space a sender may put around a record; the transport has already
\* cut the stream at the "\n" delimiter (lines 14-18).
Frames == { <<"", "\r">>, <<" ", "">>, <<"\t", " \r">> }

Framed == { fr[1] \o l \o fr[2] : l \in Parts, fr \in Frames }

ExampleLine == "HR:81,TEMP:36.7,AX:0.10"
OxygenLine == "ECG:951.5,SPO2:96.4\r"
GarbageLine == "garbage line"
ObjectLine == "{\"bpm\":95,\"status\":\"WARNING\"}"

\* what the adapter hands to the data callback: one delimited line, at times
\* with the carriage return of a CRLF sender, or an empty line
Raws ==
  LinesOf(MaxParts) \cup Singles \cup Framed
    \cup { "AX:1,HR:81\r", "", " \r", ExampleLine, OxygenLine, GarbageLine,
           ObjectLine }

\* Two ways of cutting one byte stream into chunks: a record split across
\* chunks, and two records in one chunk.
Cuts ==
  { << <<"AX:1,HR:81\n">>, <<"AX:1,H", "R:81\n">> >>,
    << <<"AX:1\n", "HR:81\n">>, <<"AX:1\nHR:81\n">> >> }

Range(f) == { f[i] : i \in DOMAIN f }

Chunks == UNION { Range(c[1]) \cup Range(c[2]) : c \in Cuts }

\* What the string operators yield on the inputs, computed once: the parts
\* of each trimmed line (line 138) and the pair of each part (lines 141-146).
Trimmed == { trim(raw) : raw \in Raws \cup Chunks }

partsOf == [str \in Trimmed |-> split(str, ",")]

pairAt == [part \in UNION { Range(partsOf[str]) : str \in Trimmed } |-> pairOf(part)]

\* parseData, lines 148-154: the effect of one pair on accel and result
applyPair(acc, p) ==
  IF ~p.ok THEN acc
  ELSE IF p.k = "AX" THEN [acc EXCEPT !.accel.x = p.v]
  ELSE IF p.k = "AY" THEN [acc EXCEPT !.accel.y = p.v]
  ELSE IF p.k = "AZ" THEN [acc EXCEPT !.accel.z = p.v]
  ELSE IF p.k = "HR"
    THEN [acc EXCEPT !.result = put(@, "heartRate", MathRound(p.v))]
  ELSE IF p.k = "TEMP"
    THEN [acc EXCEPT !.result = put(@, "temperature", toFixed1(p.v))]
  ELSE IF p.k = "ECG"
    THEN [acc EXCEPT !.result = put(@, "ecg", MathRound(p.v))]
  ELSE IF p.k = "SPO2"
    THEN [acc EXCEPT !.result = put(@, "spo2", MathRound(p.v))]
  ELSE acc

\* parseData, lines 140-155: the forEach over the parts
RECURSIVE forEachPart(_, _)
forEachPart(parts, acc) ==
  IF parts = <<>> THEN acc
  ELSE forEachPart(Tail(parts), applyPair(acc, pairAt[Head(parts)]))

\* a comparison that always finds a difference
accelChangedAlways(accel, snapshot) == TRUE

\* the comparison of line 157: `data` is the render's snapshot
accelChanged(accel, snapshot) ==
  \/ accel.x # snapshot.accelerometer.x
  \/ accel.y # snapshot.accelerometer.y
  \/ accel.z # snapshot.accelerometer.z

\* parseData, lines 157-161
finish(acc, snapshot) ==
  IF accelChanged(acc.accel, snapshot)
    THEN put(acc.result, "accelerometer", acc.accel)
    ELSE acc.result

\* parseData(str), lines 135-162; `snapshot` is the `data` of the render
\* whose closure is running
parseData(str, snapshot) ==
  finish(forEachPart(partsOf[str],
                     [result |-> <<>>, accel |-> snapshot.accelerometer]),
         snapshot)

\* { ...prev, ...parsed }
spread(prev, parsed) ==
  [n \in DOMAIN prev \cup DOMAIN parsed |->
     IF n \in DOMAIN parsed THEN parsed[n] ELSE prev[n]]

\* handleData, lines 127-129
mergeParsed(prev, parsed) ==
  IF DOMAIN parsed # {} THEN spread(prev, parsed) ELSE prev

\* handleData, lines 124-129, on the trimmed string
handleTrimmed(prev, str, snapshot) ==
  IF str = "" THEN prev ELSE mergeParsed(prev, parseData(str, snapshot))

\* handleData(raw), lines 121-133, for a string `raw` (nothing in the try
\* block throws on a string)
handleData(prev, raw, snapshot) == handleTrimmed(prev, trim(raw), snapshot)

\* The Sensor Reading with the accelerometer axes as fields of their own.
Flat(d) ==
  [ x |-> d.accelerometer.x, y |-> d.accelerometer.y, z |-> d.accelerometer.z,
    heartRate |-> d.heartRate, temperature |-> d.temperature,
    ecg |-> d.ecg, spo2 |-> d.spo2 ]

\* The fields a line supplies with a parsable value, each with the value of
\* its last pair in the line (the symbol table of lines 148-154).
supplyPair(acc, p) ==
  IF ~p.ok THEN acc
  ELSE IF p.k = "AX" THEN put(acc, "x", p.v)
  ELSE IF p.k = "AY" THEN put(acc, "y", p.v)
  ELSE IF p.k = "AZ" THEN put(acc, "z", p.v)
  ELSE IF p.k = "HR" THEN put(acc, "heartRate", MathRound(p.v))
  ELSE IF p.k = "TEMP" THEN put(acc, "temperature", toFixed1(p.v))
  ELSE IF p.k = "ECG" THEN put(acc, "ecg", MathRound(p.v))
  ELSE IF p.k = "SPO2" THEN put(acc, "spo2", MathRound(p.v))
  ELSE acc

RECURSIVE supplied(_, _)
supplied(parts, acc) ==
  IF parts = <<>> THEN acc
  ELSE supplied(Tail(parts), supplyPair(acc, pairAt[Head(parts)]))

suppliedBy(raw) == supplied(partsOf[trim(raw)], <<>>)

\* The kind of a line, by the grammar it is read with: blank (line 124), an
\* object line (first character "{"), a line with a valid pair, a line none
\* of whose parts has the KEY:VALUE shape, and a line of pairs none of which
\* is valid (lines 142-146).
lineKind(raw) ==
  IF trim(raw) = "" THEN "blank"
  ELSE IF Head(trim(raw)) = "{" THEN "object"
  ELSE IF DOMAIN suppliedBy(raw) # {} THEN "fields"
  ELSE IF \A part \in Range(partsOf[trim(raw)]) : IndexIn(":", part) = 0
    THEN "malformed"
  ELSE "empty"

kindOf == [raw \in Raws |-> lineKind(raw)]

\* ------------------------------------------------------- the simulated App
\* The second App of src/App.tsx (lines 402-567) has no adapter: a connect
\* is a timer of 2 to 5 seconds with a random outcome.  Its state is one
\* record: the useState cells, the values of them the handlers of the last
\* render captured (rConnected, rSimulating, rConnecting), the two refs,
\* and the timers and intervals the runtime holds.
MaxSimOps == 4        \* button presses in the simulated App, per run

SimLogKeep == 7       \* prev.slice(0, 7) in addLog

InitialLogs == << <<"App started", "">> >>

SimInit ==
  [ isConnected |-> FALSE, isSimulating |-> FALSE, isConnecting |-> FALSE,
    connectionStatus |-> "Disconnected",
    logs |-> << <<"App started. Ready to connect to HC-06.", "">>,
                <<"Ensure HC-06 is powered on and paired in system Bluetooth.", "">>,
                <<"Default PIN: 1234", "">> >>,
    rConnected |-> FALSE, rSimulating |-> FALSE, rConnecting |-> FALSE,
    simulationInterval |-> NoRef, connectionTimeout |-> NoRef,
    intervals |-> {},     \* ids of the intervals that are running
    timers |-> {},        \* ids of the timeouts that are pending
    made |-> 0,           \* ids handed out by setTimeout/setInterval
    presses |-> 0 ]

\* an addLog that keeps every entry
simAddLogAll(s, msg) == [s EXCEPT !.logs = <<msg>> \o s.logs]

\* addLog of the simulated App, lines 426-429
simAddLog(s, msg) == [s EXCEPT !.logs = <<msg>> \o Take(s.logs, SimLogKeep)]

\* clearLogs, lines 549-551
clearLogs(s) == [s EXCEPT !.logs = << <<"Logs cleared", "">> >>]

\* stopAllIntervals, lines 537-546: clears what the two refs hold
stopAllIntervals(s) ==
  LET s1 == IF s.simulationInterval # NoRef
              THEN [s EXCEPT !.intervals = @ \ {s.simulationInterval},
                             !.simulationInterval = NoRef]
              ELSE s
  IN IF s1.connectionTimeout # NoRef
       THEN [s1 EXCEPT !.timers = @ \ {s1.connectionTimeout},
                       !.connectionTimeout = NoRef]
       ELSE s1

\* startReceivingArduinoData, lines 489-507
startReceivingArduinoData(s) ==
  LET s1 == IF s.simulationInterval # NoRef
              THEN [s EXCEPT !.intervals = @ \ {s.simulationInterval}]
              ELSE s
      id == s.made + 1
  IN [s1 EXCEPT !.made = id, !.intervals = @ \cup {id},
                !.simulationInterval = id]

\* connectToHC06, lines 432-442 and 473-474: up to the setTimeout
connectToHC06(s) ==
  IF s.rConnected \/ s.rConnecting THEN s
  ELSE LET id == s.made + 1
           s1 == simAddLog([s EXCEPT !.isConnecting = TRUE,
                                     !.connectionStatus = "Connecting..."],
                           <<"Attempting to connect to ", "HC-06">>)
       IN [s1 EXCEPT !.made = id, !.timers = @ \cup {id},
                     !.connectionTimeout = id]

\* the callback of the connection timer, lines 442-473
connectionElapsed(s, isSuccess) ==
  IF isSuccess
    THEN startReceivingArduinoData(
           simAddLog(simAddLog([s EXCEPT !.isConnected = TRUE,
                                         !.isConnecting = FALSE,
                                         !.connectionStatus = "Connected"],
                               <<"Connected to ", "HC-06">>),
                     <<"Receiving sensor data...", "">>))
    ELSE simAddLog(simAddLog([s EXCEPT !.isConnecting = FALSE,
                                       !.connectionStatus = "Failed to connect"],
                             <<"Connection failed", "">>),
                   <<"Check: ", "1. HC-06 is powered 2. Device is paired 3. PIN: 1234">>)

\* disconnectHC06, lines 477-486
disconnectHC06(s) ==
  IF ~s.rConnected THEN s
  ELSE stopAllIntervals(
         simAddLog([s EXCEPT !.isConnected = FALSE,
                             !.connectionStatus = "Disconnected"],
                   <<"Disconnected from ", "HC-06">>))

\* toggleSimulation, lines 510-534
toggleSimulation(s) ==
  IF s.rSimulating
    THEN stopAllIntervals(simAddLog([s EXCEPT !.isSimulating = FALSE],
                                    <<"Sensor simulation stopped", "">>))
    ELSE LET id == s.made + 1
             s1 == simAddLog([s EXCEPT !.isSimulating = TRUE],
                             <<"Standalone sensor simulation started", "">>)
         IN [s1 EXCEPT !.made = id, !.intervals = @ \cup {id},
                       !.simulationInterval = id]

\* handleConnectionPress, lines 561-567
handleConnectionPress(s) ==
  IF s.rConnected THEN disconnectHC06(s) ELSE connectToHC06(s)

\* --------------------------------------------------------------------- Init
Init ==
  /\ status = "disconnected"
  /\ device = NoDevice
  /\ data = InitialData
  /\ logs = InitialLogs
  /\ rStatus = "disconnected"
  /\ rDevice = NoDevice
  /\ rData = InitialData
  /\ deviceRef = NoDevice
  /\ subscriptionRef = NoRef
  /\ timeoutRef = NoRef
  /\ calls = <<>>
  /\ subs = {}
  /\ disc = EmptyBag
  /\ link = {}
  /\ invoked = 0
  /\ refreshed = 0
  /\ expected = Flat(InitialData)
  /\ last = "none"
  /\ mounted = TRUE
  /\ sim = SimInit
  /\ discovery = [scans |-> 0, queries |-> 0, alerts |-> 0]

\* ------------------------------------------------------------------ actions

\* A render: the handlers are re-created over the current state.
Render ==
  /\ mounted
  /\ << rStatus, rDevice, rData >> # << status, device, data >>
  /\ rStatus' = status
  /\ rDevice' = device
  /\ rData' = data
  /\ UNCHANGED << status, device, data, logs, deviceRef, subscriptionRef,
                  timeoutRef, calls, subs, disc, link, invoked, refreshed,
                  expected, last, mounted, sim, discovery >>

\* What the platform answers during one run of initBluetooth or scan: the
\* state of Bluetooth ("disabled" is disabled and not enabled on request),
\* the permission dialog, and the list query (a list, or an error).  With
\* Bluetooth off or the permission denied the list query throws.
Outcomes ==
  { [kind |-> "devices", list |-> l, err |-> ""] : l \in BondedLists }
    \cup { [kind |-> "threw", list |-> << >>, err |-> e] : e \in AdapterErrors }

Envs ==
  { env \in [bt : {"unavailable", "disabled", "on"},
             perm : {"granted", "denied"},
             result : Outcomes] :
      (env.bt # "on" \/ env.perm = "denied") => env.result.kind = "threw" }

alerted(d) == [d EXCEPT !.alerts = @ + 1]
queried(d) == [d EXCEPT !.queries = @ + 1]

\* initBluetooth(), lines 38-67, run on mount and by the Refresh button.
\* It reads no component state, so its awaits are collapsed into one step.
Refresh(env) ==
  /\ mounted
  /\ refreshed < MaxRefresh
  /\ refreshed' = refreshed + 1
  /\ IF env.bt # "on"
       THEN /\ Commit(Cells)         \* lines 41-44, 50-53: Alert, return
            /\ discovery' = alerted(discovery)
       ELSE /\ discovery' = queried(discovery)
            /\ IF env.result.kind = "threw"
                 THEN Commit(addLog(Cells, <<"Init error: ", env.result.err>>))
                 ELSE LET hc06 == find(env.result.list) IN
                      IF hc06 # NoDevice
                        THEN Commit(addLog([Cells EXCEPT !.device = hc06],
                                           <<"Found: ", hc06.name>>))
                        ELSE Commit(addLog(Cells,
                               <<"No HC-06 found in paired devices", "">>))
  /\ UNCHANGED << rStatus, rDevice, rData, invoked, expected, last, mounted,
                  sim >>

InitBluetooth == \E env \in Envs : Refresh(env)

\* scan(), lines 172-220, the Scan button.  It reads `status` once, at its
\* start, so its awaits are collapsed into one step.
ScanWith(env) ==
  /\ mounted
  /\ discovery.scans < MaxScans
  /\ LET counted == [discovery EXCEPT !.scans = @ + 1]
         s1 == addLog(Cells, <<"Scanning...", "">>)
     IN IF rStatus # "disconnected"
          THEN /\ Commit(Cells)      \* lines 173-176: Alert, return
               /\ discovery' = alerted(counted)
        ELSE IF env.perm = "denied"
          THEN /\ Commit(s1)         \* lines 192-203: Alert, return
               /\ discovery' = alerted(counted)
        ELSE IF env.result.kind = "threw"
          THEN /\ Commit(addLog(s1, <<"Scan error: ", env.result.err>>))
               /\ discovery' = queried(counted)
        ELSE LET hc06 == find(env.result.list) IN
             /\ discovery' = alerted(queried(counted))
             /\ IF hc06 # NoDevice
                  THEN Commit(addLog([s1 EXCEPT !.device = hc06],
                                     <<"Found: ", hc06.name>>))
                  ELSE Commit(addLog(s1, <<"No HC-06 found", "">>))
  /\ UNCHANGED << rStatus, rDevice, rData, invoked, refreshed, expected, last,
                  mounted, sim >>

Scan == \E env \in Envs : ScanWith(env)

\* connect(), lines 69-85: from the call to the first await
Connect ==
  /\ invoked < MaxInvoked
  /\ invoked' = invoked + 1
  /\ IF connectGuard(rStatus, rDevice) /\ Len(calls) < MaxConnects
       THEN LET id == Len(calls) + 1
                s1 == setStatus(Cells, "connecting")
                s2 == addLog(s1, <<"Connecting...", "">>)
            IN Commit([s2 EXCEPT
                 !.calls = Append(@, [stage |-> "isConnected", dev |-> rDevice,
                                      captured |-> rStatus, data |-> rData,
                                      timer |-> "pending", firedAt |-> "never"]),
                 !.timeoutRef = id,
                 !.deviceRef = rDevice])
       ELSE /\ ~connectGuard(rStatus, rDevice)
            /\ Commit(Cells)
  /\ UNCHANGED << rStatus, rDevice, rData, refreshed, expected, last, mounted, sim, discovery >>

\* disconnect() called by the main button, lines 103-111
UserDisconnect ==
  /\ BagCardinality(disc) < MaxDisconnects
  /\ Commit(disconnect(Cells, "user"))
  /\ UNCHANGED << rStatus, rDevice, rData, invoked, refreshed, expected, last,
                  mounted, sim, discovery >>

\* the main button, lines 272-279
PressMain ==
  /\ mounted
  /\ ~(rStatus = "connecting" \/ rDevice = NoDevice)
  /\ IF rStatus = "connected" THEN UserDisconnect ELSE Connect

\* `await device.isConnected()` settles, lines 85-91
IsConnectedSettles(i) ==
  /\ calls[i].stage = "isConnected"
  /\ \/ /\ calls[i].dev.address \in link
        /\ Commit(connectSucceeded(Cells, i))
     \/ /\ calls[i].dev.address \notin link
        /\ Commit([Cells EXCEPT !.calls[i].stage = "connect"])
     \/ \E e \in AdapterErrors :
          /\ BagCardinality(disc) < MaxDisconnects
          /\ Commit(handleError([Cells EXCEPT !.calls[i].stage = "threw"], e))
  /\ UNCHANGED << rStatus, rDevice, rData, invoked, refreshed, expected, last,
                  mounted, sim, discovery >>

\* `await device.connect(CONNECTION_OPTIONS)` settles, lines 88-99
ConnectSettles(i) ==
  /\ calls[i].stage = "connect"
  /\ \/ Commit(connectSucceeded(
                 [Cells EXCEPT !.link = @ \cup {calls[i].dev.address}], i))
     \/ /\ BagCardinality(disc) < MaxDisconnects
        /\ Commit(handleError([Cells EXCEPT !.calls[i].stage = "refused"],
                              "Connection failed"))
     \/ \E e \in AdapterErrors :
          /\ BagCardinality(disc) < MaxDisconnects
          /\ Commit(handleError([Cells EXCEPT !.calls[i].stage = "threw"], e))
  /\ UNCHANGED << rStatus, rDevice, rData, invoked, refreshed, expected, last,
                  mounted, sim, discovery >>

\* `await deviceRef.current.disconnect()` settles, lines 111-118
DisconnectSettles(d) ==
  /\ BagIn(d, disc)
  /\ LET s0 == [Cells EXCEPT !.disc = @ (-) SetToBag({d})]
         tail(s) == disconnectTail([s EXCEPT !.deviceRef = NoDevice])
     IN IF d.by = "unmount"
          THEN \/ Commit([s0 EXCEPT !.link = @ \ {d.dev.address}])
               \/ Commit(s0)     \* the adapter threw; nobody waits for it
          ELSE \/ Commit(tail(addLog([s0 EXCEPT !.link = @ \ {d.dev.address}],
                                     <<"Disconnected", "">>)))
               \/ Commit(tail(s0))       \* the adapter threw: `catch {}`
  /\ UNCHANGED << rStatus, rDevice, rData, invoked, refreshed, expected, last,
                  mounted, sim, discovery >>

\* the deadline callback, lines 75-81
TimeoutFires(i) ==
  /\ calls[i].timer = "pending"
  /\ LET s0 == [Cells EXCEPT !.calls[i].timer = "fired",
                             !.calls[i].firedAt = status]
     IN IF timeoutGuard(calls[i].captured)
          THEN /\ BagCardinality(disc) < MaxDisconnects
               /\ Commit(addLog(setStatus(disconnect(s0, "timeout"), "failed"),
                                <<"Timeout", "">>))
          ELSE Commit(s0)
  /\ UNCHANGED << rStatus, rDevice, rData, invoked, refreshed, expected, last,
                  mounted, sim, discovery >>

\* the cleanup of the mount effect, lines 223-228, run when the component
\* unmounts: the refs are read as they are then; the adapter's disconnect()
\* is called and not awaited
Unmount ==
  /\ mounted
  /\ mounted' = FALSE
  /\ LET s1 == IF subscriptionRef # NoRef
                 THEN [Cells EXCEPT !.subs = @ \ {subscriptionRef}]
                 ELSE Cells
         s2 == clearHeldTimeout(s1)
     IN IF deviceRef # NoDevice
          THEN Commit([s2 EXCEPT !.disc =
                         @ (+) SetToBag({[dev |-> deviceRef, by |-> "unmount"]})])
          ELSE Commit(s2)
  /\ UNCHANGED << rStatus, rDevice, rData, invoked, refreshed, expected, last,
                  sim, discovery >>

\* the transport drops an open channel (the peripheral goes out of range)
LinkLoss ==
  /\ \E a \in link : link' = link \ {a}
  /\ UNCHANGED << status, device, data, logs, rStatus, rDevice, rData,
                  deviceRef, subscriptionRef, timeoutRef, calls, subs, disc,
                  invoked, refreshed, expected, last, mounted, sim, discovery >>

\* the data callback of subscription i, line 97: handleData of the render
\* in which connect invocation i was created
DataReceived(i, raw) ==
  /\ i \in subs
  /\ calls[i].dev.address \in link
  /\ data' = IF mounted THEN handleData(data, raw, calls[i].data) ELSE data
  /\ expected' = spread(expected, suppliedBy(raw))
  /\ last' = kindOf[raw]
  /\ UNCHANGED << status, device, logs, rStatus, rDevice, rData, deviceRef,
                  subscriptionRef, timeoutRef, calls, subs, disc, link,
                  invoked, refreshed, mounted, sim, discovery >>

Next ==
  \/ Render
  \/ InitBluetooth
  \/ PressMain
  \/ \E i \in DOMAIN calls : IsConnectedSettles(i)
  \/ \E i \in DOMAIN calls : ConnectSettles(i)
  \/ \E d \in BagToSet(disc) : DisconnectSettles(d)
  \/ \E i \in DOMAIN calls : TimeoutFires(i)
  \/ LinkLoss
  \/ Unmount

Spec == Init /\ [][Next]_vars

\* What the event loop guarantees: a scheduled render happens, a pending
\* timer fires, and (taking the adapter at its best) every adapter promise
\* settles.  User presses and link drops are not forced.
Fairness ==
  /\ WF_vars(Render)
  /\ WF_vars(\E i \in DOMAIN calls : IsConnectedSettles(i))
  /\ WF_vars(\E i \in DOMAIN calls : ConnectSettles(i))
  /\ WF_vars(\E d \in BagToSet(disc) : DisconnectSettles(d))
  /\ WF_vars(\E i \in DOMAIN calls : TimeoutFires(i))

FairSpec == Spec /\ Fairness

\* The ingestion pipeline is checked from the state the first session is in
\* once its connect has been confirmed and rendered (a state Spec reaches:
\* Connected below), under the steps that can follow while it stays up.
Connected ==
  /\ status = "connected"
  /\ device = HC06
  /\ data = InitialData
  /\ logs = << <<"Connected", "">>, <<"Connecting...", "">>,
               <<"Found: ", "HC-06">>, <<"App started", "">> >>
  /\ rStatus = "connected"
  /\ rDevice = HC06
  /\ rData = InitialData
  /\ deviceRef = HC06
  /\ subscriptionRef = 1
  /\ timeoutRef = 1
  /\ calls = << [stage |-> "ok", dev |-> HC06, captured |-> "disconnected",
                 data |-> InitialData, timer |-> "cancelled",
                 firedAt |-> "never"] >>
  /\ subs = {1}
  /\ disc = EmptyBag
  /\ link = {HC06.address}
  /\ invoked = 1
  /\ refreshed = 1
  /\ expected = Flat(InitialData)
  /\ last = "none"
  /\ mounted = TRUE
  /\ sim = SimInit
  /\ discovery = [scans |-> 0, queries |-> 1, alerts |-> 0]

NextData ==
  \/ \E i \in subs, raw \in Raws : DataReceived(i, raw)
  \/ Render

SpecData == Connected /\ [][NextData]_vars

\* Discovery (Refresh and Scan) is checked together with the first connect
\* attempt up to the adapter's connect call, where the status the Scan
\* button tests takes its values.
NextDiscovery ==
  \/ Render
  \/ InitBluetooth
  \/ Scan
  \/ calls = << >> /\ PressMain
  \/ \E i \in DOMAIN calls : IsConnectedSettles(i)

SpecDiscovery == Init /\ [][NextDiscovery]_vars

\* ------------------------------------------------------- the Activity Log
\* The log operations on their own: what any handler appends, and the two
\* Clear buttons.  One of the two Apps runs at a time.
LogTexts == { <<"Scanning...", "">>, <<"Disconnected", "">> }

SimLogTexts == { <<"Sensor simulation stopped", "">>,
                 <<"Standalone sensor simulation started", "">> }

\* addLog(msg), lines 33-36
AppendLog(msg) ==
  /\ Commit(addLog(Cells, msg))
  /\ UNCHANGED << rStatus, rDevice, rData, invoked, refreshed, expected, last,
                  mounted, sim, discovery >>

\* the Clear button, line 320
ClearLogs ==
  /\ Commit([Cells EXCEPT !.logs = << <<"Cleared", "">> >>])
  /\ UNCHANGED << rStatus, rDevice, rData, invoked, refreshed, expected, last,
                  mounted, sim, discovery >>

\* addLog(message) of the simulated App, lines 426-429
SimAppendLog(msg) == sim' = simAddLog(sim, msg) /\ UNCHANGED appVars

\* the Clear button of the simulated App, lines 549-551 and 708
SimClearLogs == sim' = clearLogs(sim) /\ UNCHANGED appVars

LogNext ==
  \/ sim = SimInit /\ \E msg \in LogTexts : AppendLog(msg)
  \/ sim = SimInit /\ ClearLogs
  \/ logs = InitialLogs /\ \E msg \in SimLogTexts : SimAppendLog(msg)
  \/ logs = InitialLogs /\ SimClearLogs

SpecLog == Init /\ [][LogNext]_vars

\* ------------------------------------------- the simulated App's actions
\* The component stays mounted; the readings the intervals write are not
\* part of the state.

\* React re-renders: the handlers of the new render see the current cells
SimRender ==
  /\ << sim.rConnected, sim.rSimulating, sim.rConnecting >>
       # << sim.isConnected, sim.isSimulating, sim.isConnecting >>
  /\ sim' = [sim EXCEPT !.rConnected = sim.isConnected,
                        !.rSimulating = sim.isSimulating,
                        !.rConnecting = sim.isConnecting]
  /\ UNCHANGED appVars

\* the connection button, lines 614-617: disabled while isConnecting
SimPressConnection ==
  /\ ~sim.rConnecting
  /\ sim.presses < MaxSimOps
  /\ sim' = [handleConnectionPress(sim) EXCEPT !.presses = @ + 1]
  /\ UNCHANGED appVars

\* the simulation button, line 632
SimPressToggle ==
  /\ sim.presses < MaxSimOps
  /\ sim' = [toggleSimulation(sim) EXCEPT !.presses = @ + 1]
  /\ UNCHANGED appVars

\* a pending connection timer fires, with either outcome of Math.random()
SimTimeoutFires ==
  /\ \E id \in sim.timers, isSuccess \in BOOLEAN :
       sim' = connectionElapsed([sim EXCEPT !.timers = @ \ {id}], isSuccess)
  /\ UNCHANGED appVars

SimNext ==
  \/ SimRender
  \/ SimPressConnection
  \/ SimPressToggle
  \/ SimTimeoutFires
  \/ SimClearLogs

SimSpec == Init /\ [][SimNext]_vars

\* React re-renders after a state update, and a pending timer fires unless
\* it is cancelled.  Presses are not forced.
SimFairSpec == SimSpec /\ WF_vars(SimRender) /\ WF_vars(SimTimeoutFires)

\* ----------------------------------------------------------------- claims
InFlight == { i \in DOMAIN calls : calls[i].stage \in {"isConnected", "connect"} }

Pending == { i \in DOMAIN calls : calls[i].timer = "pending" }

\* the step is the deadline callback of call i
Fired(i) == calls[i].timer = "pending" /\ calls'[i].timer = "fired"

\* C1: of two connect invocations of which the second is issued before the
\* first attempt has ended, only one reaches the adapter: at most one
\* connect invocation is awaiting the adapter at any time.
C1_SingleDial == Cardinality(InFlight) <= 1

\* C2: a deadline that fires while the status is still 'connecting' moves
\* the status to 'failed'.
C2_TimeoutFails ==
  [][\A i \in DOMAIN calls :
       (Fired(i) /\ status = "connecting") => status' = "failed"]_vars

\* C3: a deadline that fires after the status has left 'connecting' forces
\* no transition: the status is unchanged (so it stays 'connected' after a
\* confirmed connection), disconnect is not called and no subscription is
\* removed.
C3_LateDeadlineIsNoOp ==
  [][\A i \in DOMAIN calls :
       (Fired(i) /\ status # "connecting") =>
          /\ status' = status
          /\ disc' = disc
          /\ subs' = subs
          /\ subscriptionRef' = subscriptionRef
          /\ deviceRef' = deviceRef]_vars

\* C3 witness: a deadline has fired while the status was 'connected', and
\* the connection and its subscription are still there.
C3_Witness ==
  \E i \in DOMAIN calls :
    /\ calls[i].firedAt = "connected"
    /\ status = "connected"
    /\ subs # {}

\* C4: after a failed attempt the status stays 'failed' until the next
\* user command: it leaves 'failed' only in a step of the main button.
C4_FailedIsStable ==
  [][(status = "failed" /\ status' # "failed") => PressMain]_vars

\* C5: once the link is gone while the status is 'connected', the status
\* eventually becomes 'disconnected'.
C5_LinkLossLeadsToIdle ==
  (status = "connected" /\ link = {}) ~> (status = "disconnected")

\* C6: once disconnect has completed the status stays 'disconnected' until
\* the next connect command: it leaves 'disconnected' only in a step of the
\* main button that starts an attempt.  (Only disconnect sets the status to
\* 'disconnected', so outside the initial state the premise means that a
\* disconnect has completed.)
C6_DisconnectedIsStable ==
  [][(status = "disconnected" /\ status' # "disconnected")
        => (PressMain /\ status' = "connecting")]_vars

\* the step in which a disconnect() called by the user returns
UserDisconnectReturns ==
  \/ \E d \in BagToSet(disc) : d.by = "user" /\ DisconnectSettles(d)
  \/ rStatus = "connected" /\ deviceRef = NoDevice /\ PressMain

\* C7: when a user-initiated disconnect returns, no deadline timer is
\* pending and no data subscription is registered.
C7_DisconnectReleasesAll ==
  [][UserDisconnectReturns =>
       /\ \A i \in DOMAIN calls' : calls'[i].timer # "pending"
       /\ subs' = {}]_vars

\* C8: when the deadline of an attempt fired while connecting and the
\* adapter call of that attempt threw afterwards, the status is 'failed'
\* once the rejection has been fully handled (no disconnect in flight).
\* Stated for a run with a single attempt, where nothing else can have
\* changed the status since.
C8_LateRejectionKeepsFailed ==
  (/\ Len(calls) = 1
   /\ calls[1].firedAt = "connecting"
   /\ calls[1].stage = "threw"
   /\ disc = EmptyBag)
  => status = "failed"

\* C9: a connect command issued while the status is 'failed' (and rendered
\* as such), with a device selected, starts a new attempt.
C9_ConnectFromFailed ==
  [][(/\ invoked' = invoked + 1
      /\ status = "failed" /\ rStatus = "failed"
      /\ rDevice # NoDevice /\ Len(calls) < MaxConnects)
        => status' = "connecting"]_vars

\* C10: after any sequence of received lines every Sensor Reading field
\* (each accelerometer axis on its own) holds the value of the most recent
\* line that supplied a parsable value for it, or its initial default.
C10_LastValuePerField == Flat(data) = expected

\* C11: processing one received line leaves every Sensor Reading field the
\* line does not name with a parsable value at its prior value, each
\* accelerometer axis counted as a field of its own.
C11_FrameEffect ==
  [][\A i \in subs, raw \in Raws :
       DataReceived(i, raw) =>
         \A f \in DOMAIN Flat(data) \ DOMAIN suppliedBy(raw) :
           Flat(data')[f] = Flat(data)[f]]_vars

\* The data callback applied to a sequence of chunks, one invocation each,
\* all by the closure of one subscription.
RECURSIVE feed(_, _, _)
feed(prev, chunks, snapshot) ==
  IF chunks = <<>> THEN prev
  ELSE feed(handleData(prev, Head(chunks), snapshot), Tail(chunks), snapshot)

\* C12 as stated: two ways of cutting one byte stream into chunks handed to
\* the data callback (a record split across chunks, two records in one
\* chunk) end in the same Sensor Reading.
C12_ChunkingInvariance ==
  \A i \in subs, c \in Cuts :
    feed(data, c[1], calls[i].data) = feed(data, c[2], calls[i].data)

\* C12, line-framed delivery: a record handed to the data callback whole has
\* the same effect on the Sensor Reading whether it arrives bare or with
\* white space around it (a carriage return, blanks, tabs).
C12_FramingInvariance ==
  \A i \in subs, l \in Parts, fr \in Frames :
    handleData(data, fr[1] \o l \o fr[2], calls[i].data)
      = handleData(data, l, calls[i].data)

\* a line ending in a carriage return has been received and decoded
C12_Witness == data.ecg = 95200 /\ data.spo2 = 9600

\* C13: receiving a malformed line changes no Sensor Reading field, leaves
\* the connection status alone and puts exactly one entry, the parse
\* failure, at the head of the Activity Log.
C13_MalformedLineLogged ==
  [][\A i \in subs, raw \in { r \in Raws : kindOf[r] = "malformed" } :
       DataReceived(i, raw) =>
         /\ data' = data
         /\ status' = status
         /\ logs' # << >>
         /\ Head(logs')[1] = "Parse error: "
         /\ Tail(logs') = Take(logs, LogKeep)]_vars

\* the parts of a line that are no valid pair: no ':' shape, an unknown key
\* or a value that is no number (the skips of lines 142 and 146, and a key
\* outside lines 148-154)
invalidParts(raw) ==
  { part \in Range(partsOf[trim(raw)]) : supplyPair(<< >>, pairAt[part]) = << >> }

\* C14: a received line with an unknown-key or unparsable pair in it updates
\* exactly the fields of its valid pairs, to their values, and no other
\* field; with no valid pair at all it changes nothing.
C14_InvalidPairsSkipped ==
  [][\A i \in subs, raw \in { r \in Raws : invalidParts(r) # {} } :
       DataReceived(i, raw) =>
         Flat(data') = spread(Flat(data), suppliedBy(raw))]_vars

\* Flat lines of known keys with numeric values, each with the fields it is
\* to store: HR, ECG and SPO2 as the nearest integer, TEMP to one decimal,
\* an axis as given (values in hundredths).
KnownLines ==
  [ raw \in { ExampleLine, OxygenLine, "hr:80.6", "TEMP:36.72", "AX:1", "AX:0",
              " ay : 2" } |->
      IF raw = ExampleLine
        THEN [heartRate |-> 8100, temperature |-> 3670, x |-> 10]
      ELSE IF raw = OxygenLine THEN [ecg |-> 95200, spo2 |-> 9600]
      ELSE IF raw = "hr:80.6" THEN [heartRate |-> 8100]
      ELSE IF raw = "TEMP:36.72" THEN [temperature |-> 3670]
      ELSE IF raw = "AX:1" THEN [x |-> 100]
      ELSE IF raw = "AX:0" THEN [x |-> 0]
      ELSE [y |-> 200] ]

\* C15: a received flat line of known keys with numeric values stores HR, ECG
\* and SPO2 rounded to the nearest integer, TEMP rounded to one decimal and
\* each axis as given, and leaves every other field unchanged; the line
\* HR:81,TEMP:36.7,AX:0.10 gives heartRate 81, temperature 36.7, x 0.10.
C15_FlatLineDecoded ==
  [][\A i \in subs, raw \in DOMAIN KnownLines :
       DataReceived(i, raw) =>
         Flat(data') = spread(Flat(data), KnownLines[raw])]_vars

\* C16: receiving the object line {"bpm":95,"status":"WARNING"} sets the
\* field bpm of the Sensor Reading to 95 and its field status to "WARNING",
\* and leaves the fields the object has no key for unchanged.
C16_ObjectLineDecoded ==
  [][\A i \in subs :
       DataReceived(i, ObjectLine) =>
         /\ {"bpm", "status"} \subseteq DOMAIN data'
         /\ data'.bpm = 9500
         /\ data'.status = "WARNING"
         /\ \A f \in DOMAIN data \ {"bpm", "status"} : data'[f] = data[f]]_vars

\* The lines that decode to no field, by kind: the blank ones, and those
\* whose pairs are all skipped.
Silent ==
  [ k \in {"none", "blank", "object", "fields", "malformed", "empty"} |->
      { raw \in Raws : kindOf[raw] = k /\ DOMAIN suppliedBy(raw) = {} } ]

\* C17: a step in which the data callback receives an empty or
\* whitespace-only line, or any line that decodes to no field, changes no
\* field of the Sensor Reading, adds no Activity Log entry and leaves the
\* status alone.  (The lines are looked up by the kind the step records.)
C17_EmptyDecodeIgnored ==
  [][\A i \in subs, raw \in Silent[last'] :
       DataReceived(i, raw) =>
         /\ data' = data
         /\ logs' = logs
         /\ status' = status]_vars

\* a non-blank line whose pairs are all skipped has been received after an
\* accelerometer line, so that the reading differs from the snapshot the
\* callback's closure holds
C17_Witness ==
  /\ last = "empty"
  /\ \E i \in subs : data.accelerometer # calls[i].data.accelerometer

\* a step in which connect() passes its guard and starts an attempt
ConnectAccepted == Len(calls') = Len(calls) + 1

\* C18: a connect command is accepted only when no teardown is in progress
\* (no disconnect() is waiting for the adapter), the status is
\* 'disconnected', and the earlier session's deadline timer, subscription
\* and device reference are released.
C18_TeardownBeforeConnect ==
  [][ConnectAccepted =>
       /\ disc = EmptyBag
       /\ status = "disconnected"
       /\ Pending = {}
       /\ subs = {}
       /\ deviceRef = NoDevice]_vars

\* C19: at any time at most one deadline timer is pending and at most one
\* data subscription is registered; a timer is pending only while the
\* status is 'connecting' and a subscription is registered only while it is
\* 'connected'.
C19_TimerAndSubscription ==
  /\ Cardinality(Pending) <= 1
  /\ Cardinality(subs) <= 1
  /\ Pending # {} => status = "connecting"
  /\ subs # {} => status = "connected"

\* C20: once the component has been unmounted no deadline timer is pending
\* and no data subscription is registered, whatever settles afterwards.
C20_NothingLeftAfterUnmount == ~mounted => Pending = {} /\ subs = {}

\* the capacities of the two Activity Logs
LogCapacity == 11
SimLogCapacity == 8

\* `new` is `old` with `msg` put first, the other entries in their order and
\* only the oldest dropped, and that only when `old` is at capacity
Appended(cap, old, msg, new) ==
  /\ new # << >>
  /\ Head(new) = msg
  /\ Tail(new) = IF Len(old) >= cap THEN SubSeq(old, 1, cap - 1) ELSE old

\* C21: the Activity Log never exceeds its capacity (11 entries in the
\* Bluetooth App, 8 in the simulated App); an append puts the new entry
\* first, keeps the others in their order and evicts only the oldest; a
\* clear leaves exactly one entry.
C21_LogCapacity ==
  [][/\ Len(logs') <= LogCapacity
     /\ Len(sim'.logs) <= SimLogCapacity
     /\ \A msg \in LogTexts :
          AppendLog(msg) => Appended(LogCapacity, logs, msg, logs')
     /\ \A msg \in SimLogTexts :
          SimAppendLog(msg) => Appended(SimLogCapacity, sim.logs, msg, sim'.logs)
     /\ ClearLogs => Len(logs') = 1
     /\ SimClearLogs => Len(sim'.logs) = 1]_vars

\* a log is at capacity and the entries it started with have been evicted
C21_Witness ==
  \/ Len(logs) = LogCapacity /\ logs[LogCapacity] # InitialLogs[1]
  \/ /\ Len(sim.logs) = SimLogCapacity
     /\ sim.logs[SimLogCapacity] \in SimLogTexts

\* The devices of the inputs whose name contains "HC-06", and the first of
\* them in a list (NoDevice when there is none).
Matching == { HC06, Clone }

FirstMatch(list) ==
  LET at == { i \in DOMAIN list : list[i] \in Matching }
  IN IF at = {} THEN NoDevice
     ELSE list[CHOOSE i \in at : \A j \in at : i <= j]

\* the answers in which the list query returns a list
Listing ==
  { env \in Envs :
      env.bt = "on" /\ env.perm = "granted" /\ env.result.kind = "devices" }

\* C22: a refresh, or a scan started while disconnected, to which the
\* adapter returns a device list makes one list query and selects the first
\* device of the list whose name contains "HC-06" (case-sensitive; a device
\* without a name never matches); when none matches it keeps the selection
\* and logs that no HC-06 was found.
C22_FirstMatchSelected ==
  [][\A env \in Listing :
       (Refresh(env) \/ (rStatus = "disconnected" /\ ScanWith(env))) =>
         /\ discovery'.queries = discovery.queries + 1
         /\ IF FirstMatch(env.result.list) # NoDevice
              THEN /\ device' = FirstMatch(env.result.list)
                   /\ Head(logs')[1] = "Found: "
              ELSE /\ device' = device
                   /\ Head(logs')[1] \in { "No HC-06 found in paired devices",
                                           "No HC-06 found" }]_vars

\* the second of two matching devices was passed over, after a device
\* without a name and one named "hc-06"
C22_Witness == device = Clone

\* the answers under which the action may not go on: Bluetooth unavailable,
\* disabled and not enabled on request, or the permission denied
Blocked == { env \in Envs : env.bt # "on" \/ env.perm = "denied" }

\* C23: when Bluetooth is unavailable, is disabled and cannot be enabled, or
\* a required permission is denied, a refresh or a scan stops: it makes no
\* bonded-device query and no discovery, leaves the selected device and the
\* status as they were, and surfaces the error once.
C23_BlockedActionStops ==
  [][\A env \in Blocked :
       (Refresh(env) \/ ScanWith(env)) =>
         /\ discovery'.queries = discovery.queries
         /\ discovery'.alerts = discovery.alerts + 1
         /\ device' = device
         /\ status' = status]_vars

\* C24: whenever the status is 'connected' deviceRef holds the connected
\* peripheral, and the peripheral is never still connected at the adapter
\* while the status is 'disconnected' and deviceRef is empty.
C24_RefMatchesLink ==
  /\ status = "connected" => deviceRef # NoDevice
  /\ ~(link # {} /\ status = "disconnected" /\ deviceRef = NoDevice)

\* C25: in the simulated App every connection attempt terminates: once
\* isConnecting is true it eventually becomes false again, whatever presses
\* of the connection and simulation buttons come in between, given that a
\* pending timer fires unless it is cancelled.
C25_AttemptTerminates == sim.isConnecting ~> ~sim.isConnecting

\* C26: in the simulated App at most one periodic interval is running, and
\* one is running exactly when isConnected or isSimulating is true.
C26_OneIntervalWhenActive ==
  /\ Cardinality(sim.intervals) <= 1
  /\ sim.intervals # {} <=> (sim.isConnected \/ sim.isSimulating)

====
